---- MODULE Spec2Model ----
(***************************************************************************)
(* Model of app.py, the CIS metrics simulator: the sidebar inputs and      *)
(* their validation, the derivation of the three initial age buckets,      *)
(* simulate_aging (weekly aging, intake, closure by strategy, clamp),      *)
(* find_required_closures (the linear goal-seeker scan) and the message    *)
(* chosen from its result.                                                 *)
(*                                                                         *)
(* Numbers.  Counts are Python ints.  The two percentages of a snapshot    *)
(* are Python floats (b / total) * 100; they are kept here as the exact    *)
(* fraction [num, den], and the one place where the double rounding of     *)
(* that expression changes a comparison (pct >= an integer target that the *)
(* exact value equals) is modelled by RoundsLow.  int(x * y / z) on ints   *)
(* is the exact floor (true division is correctly rounded).  int(b * rate) *)
(* with rate = min(1.0, 7 / span) is the exact floor of 7b/span for the    *)
(* spans drawn below (6, 8, 50, 94) for every b < 20000; it is one less   *)
(* for some multiples b of a few other spans (10, 55, 95, 97), which are   *)
(* not drawn.                                                              *)
(***************************************************************************)
EXTENDS Integers, Sequences, FiniteSets, TLC

VARIABLES pc,
          target_1_days, target_2_days, target_1_pct,
          total_open, pct_meeting_target_1, pct_meeting_target_2,
          weekly_opened, weekly_closed, closure_strategy,
          weeks_to_simulate, target_weeks,
          bucket_1_count, bucket_2_count, bucket_3_count,
          bucket_1, bucket_2, bucket_3, week, results,
          closures, required, outcome

inputs == <<target_1_days, target_2_days, target_1_pct, total_open,
            pct_meeting_target_1, pct_meeting_target_2, weekly_opened,
            weekly_closed, closure_strategy, weeks_to_simulate, target_weeks>>
counts == <<bucket_1_count, bucket_2_count, bucket_3_count>>
simvars == <<bucket_1, bucket_2, bucket_3, week, results>>
goalvars == <<closures, required, outcome>>
vars == <<pc, inputs, counts, simvars, goalvars>>

-----------------------------------------------------------------------------
(* Bounds of the model *)
MaxTotalOpen == 4
MaxOpened == 1
MaxClosed == 2
MaxWeeks == 4

(* Program constants: the sliders' lower end for both week counts, the end
   of the goal seeker's range, and the widgets' default values *)
MinWeeks == 4
SearchCeiling == 200
DefaultTarget1Pct == 90
DefaultWeeklyClosed == 20

(* A backlog that takes several closures a week to bring to target, and one
   that no closure rate below the ceiling clears *)
MediumBacklog == 20
LargeBacklog == 2000

OldestFirst == "Oldest First (Prioritize Aging)"
NewestFirst == "Newest First (FIFO)"
Mixed == "Mixed (50/50)"
Strategies == {OldestFirst, NewestFirst, Mixed}

Target1Days == {6, 50}
Target2Days == {14, 100}
SliderPcts == {0, 50, 100}
TargetPcts == {50, DefaultTarget1Pct, 100}
TotalOpens == (0..MaxTotalOpen) \cup {LargeBacklog}
GoalTotalOpens == (0..MaxTotalOpen) \cup {MediumBacklog, LargeBacklog}
OpenedRates == (0..MaxOpened) \cup {SearchCeiling}
ClosedRates == 0..MaxClosed
WeekChoices == MinWeeks..MaxWeeks

None == <<>>

-----------------------------------------------------------------------------
(* Arithmetic helpers *)
Min(a, b) == IF a <= b THEN a ELSE b
Max(a, b) == IF a >= b THEN a ELSE b

\* int(x / y) for ints x >= 0, y > 0
IntDiv(x, y) == x \div y

Triple(b1, b2, b3) == [bucket_1 |-> b1, bucket_2 |-> b2, bucket_3 |-> b3]
Total(b) == b.bucket_1 + b.bucket_2 + b.bucket_3

-----------------------------------------------------------------------------
(* Derivation of the initial buckets from the sliders *)
DeriveBucketsNoSubtract(total, pct1, pct2) ==
    LET b1 == IntDiv(total * pct1, 100)
        b2 == Max(0, IntDiv(total * pct2, 100))
        b3 == Max(0, total - b1 - b2)
    IN Triple(b1, b2, b3)

DeriveBuckets(total, pct1, pct2) ==
    LET b1 == IntDiv(total * pct1, 100)
        b2 == Max(0, IntDiv(total * pct2, 100) - b1)
        b3 == Max(0, total - b1 - b2)
    IN Triple(b1, b2, b3)

-----------------------------------------------------------------------------
(* simulate_aging *)

\* int(bucket * min(1.0, 7 / span))
AgingAmountUnclamped(bucket, span) == IntDiv(7 * bucket, span)

AgingAmount(bucket, span) ==
    IF span <= 7 THEN bucket ELSE IntDiv(7 * bucket, span)

AgeLeaky(b, t1, t2) ==
    LET aging_to_bucket_2 == AgingAmount(b.bucket_1, t1)
        aging_to_bucket_3 == AgingAmount(b.bucket_2, t2 - t1)
    IN Triple(b.bucket_1 - aging_to_bucket_2,
              b.bucket_2 + aging_to_bucket_2,
              b.bucket_3 + aging_to_bucket_3)

Age(b, t1, t2) ==
    LET aging_to_bucket_2 == AgingAmount(b.bucket_1, t1)
        aging_to_bucket_3 == AgingAmount(b.bucket_2, t2 - t1)
    IN Triple(b.bucket_1 - aging_to_bucket_2,
              b.bucket_2 + aging_to_bucket_2 - aging_to_bucket_3,
              b.bucket_3 + aging_to_bucket_3)

Intake(b, opened) == Triple(b.bucket_1 + opened, b.bucket_2, b.bucket_3)

ToClose(b, closed) == Min(closed, Total(b))

CloseOldestFirstWrongOrder(b, to_close) ==
    LET close_from_2 == Min(to_close, b.bucket_2)
        rest2 == to_close - close_from_2
        close_from_3 == Min(rest2, b.bucket_3)
        rest3 == rest2 - close_from_3
    IN Triple(b.bucket_1 - rest3, b.bucket_2 - close_from_2,
              b.bucket_3 - close_from_3)

CloseOldestFirstAsNewest(b, to_close) ==
    LET close_from_1 == Min(to_close, b.bucket_1)
        rest1 == to_close - close_from_1
        close_from_2 == Min(rest1, b.bucket_2)
        rest2 == rest1 - close_from_2
    IN Triple(b.bucket_1 - close_from_1, b.bucket_2 - close_from_2,
              b.bucket_3 - rest2)

CloseOldestFirst(b, to_close) ==
    LET close_from_3 == Min(to_close, b.bucket_3)
        rest3 == to_close - close_from_3
        close_from_2 == Min(rest3, b.bucket_2)
        rest2 == rest3 - close_from_2
    IN Triple(b.bucket_1 - rest2, b.bucket_2 - close_from_2,
              b.bucket_3 - close_from_3)

CloseNewestFirst(b, to_close) ==
    LET close_from_1 == Min(to_close, b.bucket_1)
        rest1 == to_close - close_from_1
        close_from_2 == Min(rest1, b.bucket_2)
        rest2 == rest1 - close_from_2
    IN Triple(b.bucket_1 - close_from_1, b.bucket_2 - close_from_2,
              b.bucket_3 - rest2)

CloseMixed(b, to_close) ==
    LET total_current == Total(b)
    IN IF total_current > 0
       THEN LET close_1 == IntDiv(to_close * b.bucket_1, total_current)
                close_2 == IntDiv(to_close * b.bucket_2, total_current)
                close_3 == to_close - close_1 - close_2
            IN Triple(b.bucket_1 - Min(close_1, b.bucket_1),
                      b.bucket_2 - Min(close_2, b.bucket_2),
                      b.bucket_3 - Min(close_3, b.bucket_3))
       ELSE b

Close(b, to_close, strategy) ==
    IF strategy = OldestFirst THEN CloseOldestFirst(b, to_close)
    ELSE IF strategy = NewestFirst THEN CloseNewestFirst(b, to_close)
    ELSE CloseMixed(b, to_close)

Clamp(b) == Triple(Max(0, b.bucket_1), Max(0, b.bucket_2), Max(0, b.bucket_3))

\* The body of "if week < weeks": the closure is not capped at the open
\* total and the final clamp is missing.
WeekStepUnguarded(b, opened, closed, strategy, t1, t2) ==
    LET aged == Intake(Age(b, t1, t2), opened)
    IN Close(aged, closed, strategy)

WeekStep(b, opened, closed, strategy, t1, t2) ==
    LET aged == Intake(Age(b, t1, t2), opened)
    IN Clamp(Close(aged, ToClose(aged, closed), strategy))

\* A percentage (b / total) * 100 as the exact fraction num / den
Pct(b, total) == [num |-> 100 * b, den |-> total]
Hundred == [num |-> 100, den |-> 1]

SnapshotSecondOnly(w, b) ==
    LET total == Total(b)
    IN [week |-> w, total_open |-> total,
        bucket_1 |-> b.bucket_1, bucket_2 |-> b.bucket_2,
        bucket_3 |-> b.bucket_3,
        pct_meeting_target_1 |->
            IF total > 0 THEN Pct(b.bucket_1, total) ELSE Hundred,
        pct_meeting_target_2 |->
            IF total > 0 THEN Pct(b.bucket_2, total) ELSE Hundred]

Snapshot(w, b) ==
    LET total == Total(b)
    IN [week |-> w, total_open |-> total,
        bucket_1 |-> b.bucket_1, bucket_2 |-> b.bucket_2,
        bucket_3 |-> b.bucket_3,
        pct_meeting_target_1 |->
            IF total > 0 THEN Pct(b.bucket_1, total) ELSE Hundred,
        pct_meeting_target_2 |->
            IF total > 0 THEN Pct(b.bucket_1 + b.bucket_2, total)
            ELSE Hundred]

\* The rows simulate_aging returns, as a pure function of its arguments
RECURSIVE SimRows(_, _, _, _, _, _, _, _)
SimRows(b, w, weeks, opened, closed, strategy, t1, t2) ==
    IF w = weeks THEN <<Snapshot(w, b)>>
    ELSE <<Snapshot(w, b)>> \o
         SimRows(WeekStep(b, opened, closed, strategy, t1, t2), w + 1, weeks,
                 opened, closed, strategy, t1, t2)

simulate_aging(b, opened, closed, strategy, weeks, t1, t2) ==
    SimRows(b, 0, weeks, opened, closed, strategy, t1, t2)

-----------------------------------------------------------------------------
(* Comparisons of percentages *)
PctLeq(p, q) == p.num * q.den <= q.num * p.den
PctLess(p, q) == p.num * q.den < q.num * p.den

\* Integers k for which the double (k / 100) * 100 is below k
RoundsLow == {29, 57, 58}

\* pct >= target, target an integer-valued float
PctAtLeastStrict(p, target) == p.num > target * p.den

PctAtLeast(p, target) ==
    \/ p.num > target * p.den
    \/ p.num = target * p.den /\ target \notin RoundsLow

-----------------------------------------------------------------------------
(* The script, top to bottom *)

Locals ==
    /\ pc = "validate"
    /\ bucket_1_count = 0 /\ bucket_2_count = 0 /\ bucket_3_count = 0
    /\ bucket_1 = 0 /\ bucket_2 = 0 /\ bucket_3 = 0
    /\ week = 0 /\ results = <<>>
    /\ closures = 0 /\ required = None /\ outcome = "pending"

\* The inputs of the projection vary; the goal seeker's own inputs are at
\* their defaults (its slider at the lower end)
Init ==
    /\ Locals
    /\ target_1_days \in Target1Days
    /\ target_2_days \in Target2Days
    /\ total_open \in TotalOpens
    /\ pct_meeting_target_1 \in SliderPcts
    /\ pct_meeting_target_2 \in SliderPcts
    /\ weekly_opened \in OpenedRates
    /\ weekly_closed \in ClosedRates
    /\ closure_strategy \in Strategies
    /\ weeks_to_simulate \in WeekChoices
    /\ target_1_pct = DefaultTarget1Pct
    /\ target_weeks = MinWeeks

\* The inputs the goal seeker reads vary; those only the projection reads
\* (weekly_closed, closure_strategy, weeks_to_simulate) are fixed
GoalInit ==
    /\ Locals
    /\ target_1_days \in Target1Days
    /\ target_2_days \in Target2Days
    /\ total_open \in GoalTotalOpens
    /\ pct_meeting_target_1 \in SliderPcts
    /\ pct_meeting_target_2 \in SliderPcts
    /\ weekly_opened \in OpenedRates
    /\ target_1_pct \in TargetPcts
    /\ target_weeks \in WeekChoices
    /\ weekly_closed = DefaultWeeklyClosed
    /\ closure_strategy = OldestFirst
    /\ weeks_to_simulate = MinWeeks

InvalidInputs ==
    \/ target_2_days <= target_1_days
    \/ pct_meeting_target_2 < pct_meeting_target_1

\* st.stop() after either sidebar error
StopInvalid ==
    /\ pc = "validate"
    /\ InvalidInputs
    /\ pc' = "stopped"
    /\ UNCHANGED <<inputs, counts, simvars, goalvars>>

\* The bucket counts derived from the sliders, and the call of
\* simulate_aging that binds them to its locals
DeriveAndCall ==
    /\ pc = "validate"
    /\ ~InvalidInputs
    /\ LET b == DeriveBuckets(total_open, pct_meeting_target_1,
                              pct_meeting_target_2)
       IN /\ bucket_1_count' = b.bucket_1
          /\ bucket_2_count' = b.bucket_2
          /\ bucket_3_count' = b.bucket_3
          /\ bucket_1' = b.bucket_1
          /\ bucket_2' = b.bucket_2
          /\ bucket_3' = b.bucket_3
    /\ week' = 0
    /\ results' = <<>>
    /\ pc' = "simulate"
    /\ UNCHANGED <<inputs, goalvars>>

\* One iteration of "for week in range(weeks + 1)"
SimulateWeek ==
    /\ pc = "simulate"
    /\ week <= weeks_to_simulate
    /\ LET b == Triple(bucket_1, bucket_2, bucket_3)
           n == IF week < weeks_to_simulate
                THEN WeekStep(b, weekly_opened, weekly_closed,
                              closure_strategy, target_1_days, target_2_days)
                ELSE b
       IN /\ results' = Append(results, Snapshot(week, b))
          /\ bucket_1' = n.bucket_1
          /\ bucket_2' = n.bucket_2
          /\ bucket_3' = n.bucket_3
    /\ week' = week + 1
    /\ pc' = "simulate"
    /\ UNCHANGED <<inputs, counts, goalvars>>

\* return pd.DataFrame(results); the dashboard reads df; the goal seeker
\* calls find_required_closures, whose range starts at weekly_opened
SimulateReturn ==
    /\ pc = "simulate"
    /\ week > weeks_to_simulate
    /\ closures' = weekly_opened
    /\ pc' = "search"
    /\ UNCHANGED <<inputs, counts, simvars, required, outcome>>

\* test_df.iloc[-1]['pct_meeting_target_1'] >= target_pct
MeetsTargetStrict(c) ==
    LET test_df == simulate_aging(
            Triple(bucket_1_count, bucket_2_count, bucket_3_count),
            weekly_opened, c, OldestFirst, target_weeks,
            target_1_days, target_2_days)
    IN PctAtLeastStrict(test_df[Len(test_df)].pct_meeting_target_1,
                        target_1_pct)

MeetsTarget(c) ==
    LET test_df == simulate_aging(
            Triple(bucket_1_count, bucket_2_count, bucket_3_count),
            weekly_opened, c, OldestFirst, target_weeks,
            target_1_days, target_2_days)
    IN PctAtLeast(test_df[Len(test_df)].pct_meeting_target_1, target_1_pct)

\* One iteration of "for closures in range(weekly_opened, 200)"
SearchStep ==
    /\ pc = "search"
    /\ closures < SearchCeiling
    /\ IF MeetsTarget(closures)
       THEN /\ required' = <<closures>>
            /\ closures' = closures
            /\ pc' = "report"
       ELSE /\ closures' = closures + 1
            /\ required' = required
            /\ pc' = "search"
    /\ UNCHANGED <<inputs, counts, simvars, outcome>>

\* The range is exhausted: return None
SearchExhausted ==
    /\ pc = "search"
    /\ closures >= SearchCeiling
    /\ required' = None
    /\ pc' = "report"
    /\ UNCHANGED <<inputs, counts, simvars, closures, outcome>>

\* Python truth value of the search result
Truthy(r) == r # None /\ r[1] # 0

\* "if required:" st.success(...) else st.error(...)
Report ==
    /\ pc = "report"
    /\ outcome' = IF Truthy(required) THEN "success" ELSE "error"
    /\ pc' = "done"
    /\ UNCHANGED <<inputs, counts, simvars, closures, required>>

Next ==
    \/ StopInvalid
    \/ DeriveAndCall
    \/ SimulateWeek
    \/ SimulateReturn
    \/ SearchStep
    \/ SearchExhausted
    \/ Report

Spec == Init /\ [][Next]_vars
GoalSpec == GoalInit /\ [][Next]_vars

-----------------------------------------------------------------------------
(* Properties *)

Derived == pc \notin {"validate", "stopped"}
Complete == Derived /\ Len(results) = weeks_to_simulate + 1
Steps == 1..(Len(results) - 1)
Row(i) == results[i]
RowBuckets(i) == Triple(Row(i).bucket_1, Row(i).bucket_2, Row(i).bucket_3)

\* The buckets of week i after aging and intake, before closure
PreClosure(i) ==
    Intake(Age(RowBuckets(i), target_1_days, target_2_days), weekly_opened)
Removed1(i) == PreClosure(i).bucket_1 - Row(i + 1).bucket_1
Removed2(i) == PreClosure(i).bucket_2 - Row(i + 1).bucket_2
Removed3(i) == PreClosure(i).bucket_3 - Row(i + 1).bucket_3

InitialCounts == Triple(bucket_1_count, bucket_2_count, bucket_3_count)

\* C1: every recorded snapshot, under every strategy, has bucket_1 >= 0,
\* bucket_2 >= 0 and bucket_3 >= 0.
C1_NonNegativeBuckets ==
    \A i \in 1..Len(results) :
        /\ Row(i).bucket_1 >= 0
        /\ Row(i).bucket_2 >= 0
        /\ Row(i).bucket_3 >= 0

\* A finished run in which some week asked to close more than was open
C1_Witness ==
    /\ Complete
    /\ \E i \in Steps :
          /\ Total(PreClosure(i)) > 0
          /\ weekly_closed > Total(PreClosure(i))

\* C2: in every snapshot with total_open > 0,
\* 0 <= pct_meeting_target_1 <= pct_meeting_target_2 <= 100, and in every
\* snapshot with total_open = 0 both percentages are 100.
C2_PercentageBound ==
    \A i \in 1..Len(results) :
        LET p1 == Row(i).pct_meeting_target_1
            p2 == Row(i).pct_meeting_target_2
        IN IF Row(i).total_open > 0
           THEN /\ p1.den > 0 /\ p2.den > 0
                /\ p1.num >= 0
                /\ PctLeq(p1, p2)
                /\ PctLeq(p2, Hundred)
           ELSE p1 = Hundred /\ p2 = Hundred

\* A finished run with a week where the two percentages differ and lie
\* strictly between 0 and 100, and a week with an empty backlog
C2_Witness ==
    /\ Complete
    /\ \E i \in 1..Len(results) :
          /\ Row(i).total_open > 0
          /\ Row(i).bucket_1 > 0
          /\ PctLess(Row(i).pct_meeting_target_1, Row(i).pct_meeting_target_2)
          /\ PctLess(Row(i).pct_meeting_target_2, Hundred)
    /\ \E i \in 1..Len(results) : Row(i).total_open = 0

\* C3: under Oldest First and Newest First the total of week w+1 is the
\* total of week w plus weekly_opened minus
\* min(weekly_closed, total of week w + weekly_opened).
C3_Conservation ==
    closure_strategy \in {OldestFirst, NewestFirst} =>
        \A i \in Steps :
            Row(i + 1).total_open =
                Row(i).total_open + weekly_opened
                - Min(weekly_closed, Row(i).total_open + weekly_opened)

\* A finished Oldest/Newest First run with a week in which items aged out
\* of both buckets and the closure was cut down to what was open
C3_Witness ==
    /\ Complete
    /\ closure_strategy \in {OldestFirst, NewestFirst}
    /\ \E i \in Steps :
          /\ AgingAmount(Row(i).bucket_1, target_1_days) > 0
          /\ AgingAmount(Row(i).bucket_2, target_2_days - target_1_days) > 0
    /\ \E i \in Steps :
          /\ Row(i).total_open + weekly_opened > 0
          /\ weekly_closed > Row(i).total_open + weekly_opened

OldestRun ==
    simulate_aging(InitialCounts, weekly_opened, weekly_closed, OldestFirst,
                   weeks_to_simulate, target_1_days, target_2_days)
NewestRun ==
    simulate_aging(InitialCounts, weekly_opened, weekly_closed, NewestFirst,
                   weeks_to_simulate, target_1_days, target_2_days)

\* C4: two runs on the same inputs that differ only in strategy: at every
\* week the Oldest First pct_meeting_target_1 is >= the Newest First one.
C4_PolicyDivergence ==
    pc = "search" /\ closures = weekly_opened =>
        \A w \in 1..(weeks_to_simulate + 1) :
            PctLeq(NewestRun[w].pct_meeting_target_1,
                   OldestRun[w].pct_meeting_target_1)

\* Inputs on which the two strategies give different percentages
C4_Witness ==
    /\ pc = "search" /\ closures = weekly_opened
    /\ \E w \in 1..(weeks_to_simulate + 1) :
          PctLess(NewestRun[w].pct_meeting_target_1,
                  OldestRun[w].pct_meeting_target_1)

\* The final-row pct_meeting_target_1 of the Oldest First run over
\* target_weeks weeks with weekly_closed = c reaches target_1_pct
FinalRow(c) ==
    simulate_aging(InitialCounts, weekly_opened, c, OldestFirst,
                   target_weeks, target_1_days, target_2_days)[target_weeks + 1]
Satisfies(c) == PctAtLeast(FinalRow(c).pct_meeting_target_1, target_1_pct)
SearchRange == weekly_opened..(SearchCeiling - 1)

\* C5: find_required_closures returns the least c with
\* weekly_opened <= c < 200 whose run satisfies the target, and None exactly
\* when no c of that range does (the range is empty if weekly_opened >= 200).
C5_LeastSatisfyingRate ==
    pc = "report" =>
        IF required = None
        THEN \A c \in SearchRange : ~Satisfies(c)
        ELSE /\ required[1] \in SearchRange
             /\ Satisfies(required[1])
             /\ \A c \in weekly_opened..(required[1] - 1) : ~Satisfies(c)

\* The search returned a rate above weekly_opened
C5_Witness ==
    /\ pc = "report"
    /\ required # None
    /\ required[1] > weekly_opened + 2
    /\ required[1] < SearchCeiling - 1

\* C6: a found rate, 0 included, is reported as success with that rate; the
\* failure message is reported only for None.
C6_ZeroRateDistinguished ==
    pc = "done" =>
        /\ required # None => outcome = "success"
        /\ outcome = "error" => required = None

\* C7: the derived counts are non-negative, sum to total_open, and
\* bucket_3_count is total_open - bucket_1_count - bucket_2_count floored
\* at 0.
C7_BucketReconciliation ==
    Derived =>
        /\ bucket_1_count >= 0 /\ bucket_2_count >= 0 /\ bucket_3_count >= 0
        /\ bucket_1_count + bucket_2_count + bucket_3_count = total_open
        /\ bucket_3_count =
               Max(0, total_open - bucket_1_count - bucket_2_count)

\* Counts derived with truncation, the first two buckets populated
C7_Witness ==
    /\ Derived
    /\ bucket_1_count > 0 /\ bucket_2_count > 0
    /\ (total_open * pct_meeting_target_1) % 100 # 0

\* C8: under Mixed the amounts subtracted sum to to_close: the total after
\* the step is the pre-closure total minus to_close.
C8_MixedRemovesToClose ==
    closure_strategy = Mixed =>
        \A i \in Steps :
            Row(i + 1).total_open =
                Total(PreClosure(i)) - ToClose(PreClosure(i), weekly_closed)

\* C9: a bucket loses items to closure only if every bucket ahead of it in
\* the strategy's order ends the step empty.
C9_PriorityDraining ==
    \A i \in Steps :
        /\ closure_strategy = OldestFirst =>
              /\ Removed2(i) > 0 => Row(i + 1).bucket_3 = 0
              /\ Removed1(i) > 0 =>
                    Row(i + 1).bucket_3 = 0 /\ Row(i + 1).bucket_2 = 0
        /\ closure_strategy = NewestFirst =>
              /\ Removed2(i) > 0 => Row(i + 1).bucket_1 = 0
              /\ Removed3(i) > 0 =>
                    Row(i + 1).bucket_1 = 0 /\ Row(i + 1).bucket_2 = 0

\* An Oldest First week that emptied bucket_3 and took from bucket_2 while
\* bucket_1 kept items
C9_Witness ==
    /\ Complete
    /\ closure_strategy = OldestFirst
    /\ \E i \in Steps :
          /\ Removed3(i) > 0
          /\ Removed2(i) > 0
          /\ Row(i + 1).bucket_1 > 0

\* The rates from c up to hi that satisfy the target, as an explicit set
RECURSIVE SatisfyingRates(_, _)
SatisfyingRates(lo, hi) ==
    IF lo > hi THEN {}
    ELSE IF lo = hi THEN (IF Satisfies(lo) THEN {lo} ELSE {})
    ELSE LET mid == (lo + hi) \div 2
         IN SatisfyingRates(lo, mid) \cup SatisfyingRates(mid + 1, hi)

\* C10: under Oldest First, if weekly_closed = c >= weekly_opened satisfies
\* the target at week target_weeks then so does every c' > c.
C10_Monotone ==
    pc = "done" =>
        LET sat == SatisfyingRates(weekly_opened, SearchCeiling)
        IN \A c \in sat : \A d \in (c + 1)..SearchCeiling : d \in sat

\* The outcome changes inside the range: some rate fails, higher ones pass
C10_Witness ==
    /\ pc = "done"
    /\ \E c \in (weekly_opened + 1)..(weekly_opened + 3) :
          /\ ~Satisfies(c - 1)
          /\ Satisfies(c)
          /\ Satisfies(c + 1)

====
